---- MODULE Spec2Model ----
(***************************************************************************)
(* A model of gol (src/gol.go): an asynchronous log writer with two       *)
(* streams, the application log ("a") and the public access log ("p").    *)
(* Callers hand messages to a channel per stream; NUM_LOGGING_ROUTINES    *)
(* worker goroutines per stream drain it and write to the stream's file,  *)
(* rotating the file by size; a purge goroutine per stream removes old    *)
(* files; Start and Stop run under startStopMutex.                        *)
(*                                                                         *)
(* Goroutines (workers, purge loops and the API calls in flight) are the  *)
(* elements of the bag `threads`; goroutines in the same local state are  *)
(* interchangeable.  An unrecovered panic and os.Exit end the process:    *)
(* every action requires proc = "up".                                      *)
(***************************************************************************)
EXTENDS Integers, Sequences, FiniteSets, Bags, TLC

\* ---------------------------------------------------------------- constants

DEBUG == 0
INFO == 1
WARN == 2
ERROR == 3
FATAL == 5
NUM_LOGGING_ROUTINES == 5
\* make(chan string, 1000): the capacity of appLogChan
AppChanCap == 1000
\* the threshold at which the rotation counter skips the size check
RotateCheckLimit == 10
\* SetAppLogMaxSize(1) / SetPublicLogMaxSize(1), in KB, as the tests set it
LogMaxSize == 1
\* bytes per KB in needRotation's comparison
KB == 1024
\* var aLogMaxAge = 10 / pLogMaxAge = 10, in days
LogMaxAge == 10

\* ------------------------------------------------------------------- bounds

\* API calls made over a run (each message is identified by its call)
MaxCalls == 2
\* Start calls that get past the running check (each makes new channels)
MaxStarts == 1
\* API calls made over a run of the level matrix
MaxLevelCalls == 1
\* Start calls that get past the running check in the runs with Stop/Start cycles
MaxRestarts == 2
\* midnights that pass over a run
MaxDayChanges == 1
\* API calls made over a run with every kind of call
MaxAsyncCalls == 1
\* workers scheduled in the runs on the rotation counter
MaxWriters == 2
\* messages logged in the runs on the rotation counter: one more than the limit
\* of the test
MaxWrites == RotateCheckLimit + 1

Streams == {"a", "p"}
\* the length, in bytes, of a formatted message
MaxMsgLen == 1024
FilterLevels == {DEBUG, INFO, WARN, ERROR}

VARIABLES
    running,        \* var running bool
    proc,           \* "up", "exit1" (os.Exit(1)) or "panic"
    mutex,          \* startStopMutex is locked
    wg,             \* the counter of the WaitGroup wg
    nchan,          \* channels made so far per stream (a channel is its number)
    logChan,        \* appLogChan / publicLogChan: 0 is the nil channel
    chanBuf,        \* chanBuf[s][g]: the buffer of channel g of stream s
    chanClosed,     \* chanClosed[s][g]: close() was called on it
    aLoglevel,      \* var aLoglevel int
    logSuffix,      \* aLogSuffix / pLogSuffix
    rotateCounter,  \* aRotateCounter / pRotateCounter
    rotateLock,     \* aFileRotateLock / pFileRotateLock: [w: held exclusively, r: readers]
    logFile,        \* appLogFile / publicLogFile: [ino, open]; ino 0 is the nil *os.File
    inodes,         \* the files: a sequence of [msgs, size, mtime, fds, s, rot]; fds
                    \* counts the open handles on the file, s is the stream that made
                    \* it, rot is the archive name a rotation of this run gave it
    dir,            \* dir[s]: [live: inode or 0, arch: <<date, suffix>> -> inode], the
                    \* entries of stream s in the log folder
    now,            \* time.Now(), in days
    threads,        \* the bag of goroutines
    ncalls,         \* API calls made so far
    enq,            \* the messages handed to a channel so far (ids)
    stopSnap,       \* enq when the Stop in progress was called
    lastRet         \* the last API call that returned

vars == <<running, proc, mutex, wg, nchan, logChan, chanBuf, chanClosed, aLoglevel,
          logSuffix, rotateCounter, rotateLock, logFile, inodes, dir, now, threads,
          ncalls, enq, stopSnap, lastRet>>

\* the variables of the files and of the channels, for the steps that leave them alone
fileVars == <<logSuffix, rotateCounter, rotateLock, logFile, inodes, dir, now>>
chanVars == <<chanBuf, chanClosed>>

\* ------------------------------------------------------------------ helpers

NoMsg == [id |-> 0, len |-> 0, lvl |-> 0, thr |-> 0]
NilFile == [ino |-> 0, open |-> FALSE]
\* no day: the folder holds no such file
NoDay == 0 - 1
NoArch == [x \in {} |-> 0]
\* the day a run begins on: late enough for a file to be older than the cutoff
Day0 == LogMaxAge + 1
\* a file just created by stream s: os.OpenFile with O_CREATE, held by one handle
NewFile(s, time) ==
    [msgs |-> {}, size |-> 0, mtime |-> time, fds |-> 1, s |-> s, rot |-> <<>>]
\* a file of sz bytes left in the folder by an earlier run, last written at time
OldFile(s, sz, time) ==
    [msgs |-> {}, size |-> sz, mtime |-> time, fds |-> 0, s |-> s, rot |-> <<>>]

\* a goroutine: kind, stream, the channel it was given, position, message in hand,
\* (for an API call) whether the engine was Stopped when it was made, (for a
\* purge loop) the entries of its last directory listing that it is to remove, and
\* (for a writer) the value of the rotation counter it has read and not yet stored
Thread(k, s, g, pc, m, st0) ==
    [k |-> k, s |-> s, g |-> g, pc |-> pc, m |-> m, st0 |-> st0, files |-> {}, n |-> 0]

One(t) == SetToBag({t})
Move(t, u) == threads' = (threads (-) One(t)) (+) One(u)
Leave(t) == threads' = threads (-) One(t)
\* the engine is Stopped: not running and no Start or Stop in progress
Stopped == ~running /\ ~mutex

Ret(op, res) == [op |-> op, res |-> res, lost |-> {}, alive |-> 0, m |-> NoMsg, st0 |-> FALSE]

\* the messages in the files of stream s (the live file and its archives)
RECURSIVE MsgsOf(_)
MsgsOf(I) == IF I = {} THEN {}
             ELSE LET i == CHOOSE j \in I : TRUE
                  IN inodes[i].msgs \cup MsgsOf(I \ {i})
Written == {m.id : m \in MsgsOf(1..Len(inodes))}
LiveSize(s) == IF dir[s].live = 0 THEN 0 ELSE inodes[dir[s].live].size

\* rotate's loop over the archive names: the first suffix from n on that is free
RECURSIVE FirstFree(_, _, _)
FirstFree(arch, d, n) == IF <<d, n>> \in DOMAIN arch THEN FirstFree(arch, d, n + 1) ELSE n

\* the number of goroutines of kind k and stream s on channel g that have not exited
AliveOf(k, s, g) ==
    LET S == {t \in BagToSet(threads) : t.k = k /\ t.s = s /\ t.g = g /\ t.pc # "exit"}
        RECURSIVE Sum(_)
        Sum(T) == IF T = {} THEN 0
                  ELSE LET x == CHOOSE y \in T : TRUE
                       IN CopiesIn(x, threads) + Sum(T \ {x})
    IN Sum(S)

\* the number of goroutines of kind k and stream s launched for channel g
LaunchedOf(k, s, g) ==
    LET S == {t \in BagToSet(threads) : t.k = k /\ t.s = s /\ t.g = g}
        RECURSIVE Sum(_)
        Sum(T) == IF T = {} THEN 0
                  ELSE LET x == CHOOSE y \in T : TRUE
                       IN CopiesIn(x, threads) + Sum(T \ {x})
    IN Sum(S)

\* --------------------------------------------------------------------- Init

InitFolder(levels, liveSizes, liveTimes, archTimes) ==
    /\ running = FALSE
    /\ proc = "up"
    /\ mutex = FALSE
    /\ wg = 0
    /\ nchan = 0
    /\ logChan = [s \in Streams |-> 0]
    /\ chanBuf = [s \in Streams |-> <<>>]
    /\ chanClosed = [s \in Streams |-> <<>>]
    /\ aLoglevel \in levels
    /\ logSuffix = [s \in Streams |-> 0]
    /\ rotateCounter = [s \in Streams |-> 0]
    /\ rotateLock = [s \in Streams |-> [w |-> FALSE, r |-> 0]]
    /\ logFile = [s \in Streams |-> NilFile]
    /\ now = Day0
    /\ \E sz \in liveSizes, lt \in liveTimes, at \in archTimes :
          \* the folder holds no live file (sz = 0) or live files of sz bytes last
          \* written on day lt, and no archive (at = NoDay) or one archive per stream
          \* made on day at
          LET lives == IF sz = 0 THEN <<>>
                       ELSE <<OldFile("a", sz, lt), OldFile("p", sz, lt)>>
              archs == IF at = NoDay THEN <<>>
                       ELSE <<OldFile("a", LogMaxSize * KB + 1, at),
                              OldFile("p", LogMaxSize * KB + 1, at)>>
              ino(s) == IF s = "a" THEN 1 ELSE 2
          IN /\ inodes = lives \o archs
             /\ dir = [s \in Streams |->
                         [live |-> IF sz = 0 THEN 0 ELSE ino(s),
                          arch |-> IF at = NoDay THEN NoArch
                                   ELSE <<at, 0>> :> (Len(lives) + ino(s))]]
    /\ threads = EmptyBag
    /\ ncalls = 0
    /\ enq = {}
    /\ stopSnap = {}
    /\ lastRet = Ret("none", "none")

\* live files of an earlier run, written today, and no archive
InitWith(levels, liveSizes) == InitFolder(levels, liveSizes, {Day0}, {NoDay})

\* var aLoglevel int = INFO, an empty log folder
Init == InitWith({INFO}, {0})

\* -------------------------------------------------------------------- Start

\* openLogFile: O_CREATE|O_APPEND on the live path; st is [inodes, dir, logFile]
openLogFile(st, s) ==
    IF st.dir[s].live # 0
    THEN [st EXCEPT !.logFile[s] = [ino |-> st.dir[s].live, open |-> TRUE],
                    !.inodes[st.dir[s].live].fds = @ + 1]
    ELSE LET i == Len(st.inodes) + 1
         IN [inodes |-> Append(st.inodes, NewFile(s, now)),
             dir |-> [st.dir EXCEPT ![s].live = i],
             logFile |-> [st.logFile EXCEPT ![s] = [ino |-> i, open |-> TRUE]]]

\* the goroutines Start launches for channel g
Launched(g) ==
    ((Thread("worker", "a", g, "init", NoMsg, FALSE) :> NUM_LOGGING_ROUTINES)
     @@ (Thread("worker", "p", g, "init", NoMsg, FALSE) :> NUM_LOGGING_ROUTINES))
    (+) One(Thread("purge", "a", g, "loop", NoMsg, FALSE))
    (+) One(Thread("purge", "p", g, "loop", NoMsg, FALSE))

\* the check inverted: if !running { return nil }
StartSkipsInverted == ~running

\* the running check that opens Start
StartSkips == running

\* Start(): okA / okP say whether opening the application / access file succeeds;
\* max bounds the Start calls that get past the running check
StartOf(okA, okP, max) ==
    /\ proc = "up"
    /\ ~mutex
    /\ IF StartSkips
       THEN /\ lastRet' = [Ret("Start", "ok") EXCEPT !.st0 = Stopped]
            /\ UNCHANGED <<running, proc, mutex, wg, nchan, logChan, chanBuf, chanClosed,
                           aLoglevel, logSuffix, rotateCounter, rotateLock, logFile,
                           inodes, dir, now, threads, ncalls, enq, stopSnap>>
       ELSE /\ nchan < max
            /\ nchan' = nchan + 1
            /\ logChan' = [s \in Streams |-> nchan + 1]
            /\ chanBuf' = [s \in Streams |-> Append(chanBuf[s], <<>>)]
            /\ chanClosed' = [s \in Streams |-> Append(chanClosed[s], FALSE)]
            /\ logSuffix' = [logSuffix EXCEPT !["a"] = 0]
            /\ LET st0 == [inodes |-> inodes, dir |-> dir, logFile |-> logFile]
                   stA == IF okA THEN openLogFile(st0, "a")
                          ELSE [st0 EXCEPT !.logFile["a"] = NilFile]
                   stP == IF ~okA THEN stA
                          ELSE IF okP THEN openLogFile(stA, "p")
                          ELSE [stA EXCEPT !.logFile["p"] = NilFile]
               IN /\ inodes' = stP.inodes
                  /\ dir' = stP.dir
                  /\ logFile' = stP.logFile
            /\ IF okA /\ okP
               THEN /\ running' = TRUE
                    /\ threads' = threads (+) Launched(nchan + 1)
                    /\ lastRet' = [Ret("Start", "ok") EXCEPT !.st0 = Stopped]
               ELSE /\ lastRet' = [Ret("Start", "err") EXCEPT !.st0 = Stopped]
                    /\ UNCHANGED <<running, threads>>
            /\ UNCHANGED <<proc, mutex, wg, aLoglevel, rotateCounter, rotateLock, now,
                           ncalls, enq, stopSnap>>

Start(okA, okP) == StartOf(okA, okP, MaxStarts)

\* --------------------------------------------------------------------- Stop

\* close(c) panics on the nil channel and on a closed channel
ClosePanics(s) == logChan[s] = 0 \/ chanClosed[s][logChan[s]]

\* Stop() up to wg.Wait(): the flag, then the two closes
StopBegin ==
    /\ proc = "up"
    /\ ~mutex
    /\ running' = FALSE
    /\ IF ClosePanics("a")
       THEN /\ proc' = "panic"
            /\ lastRet' = [Ret("Stop", IF logChan["a"] = 0 THEN "close of nil channel"
                                        ELSE "close of closed channel")
                             EXCEPT !.st0 = Stopped]
            /\ UNCHANGED <<mutex, chanClosed, threads, stopSnap>>
       ELSE IF ClosePanics("p")
       THEN /\ proc' = "panic"
            /\ chanClosed' = [chanClosed EXCEPT !["a"][logChan["a"]] = TRUE]
            /\ lastRet' = [Ret("Stop", IF logChan["p"] = 0 THEN "close of nil channel"
                                        ELSE "close of closed channel")
                             EXCEPT !.st0 = Stopped]
            /\ UNCHANGED <<mutex, threads, stopSnap>>
       ELSE /\ chanClosed' = [s \in Streams |->
                                 [chanClosed[s] EXCEPT ![logChan[s]] = TRUE]]
            /\ mutex' = TRUE
            /\ threads' = threads (+) One(Thread("Stop", "a", logChan["a"], "wait", NoMsg, Stopped))
            /\ stopSnap' = enq
            /\ UNCHANGED <<proc, lastRet>>
    /\ UNCHANGED <<wg, nchan, logChan, chanBuf, aLoglevel, ncalls, enq>>
    /\ UNCHANGED fileVars

\* wg.Wait() returns when the counter is zero
WaitReturns == wg = 0

\* Stop() from wg.Wait() to its return (the deferred Unlock)
StopReturn ==
    /\ proc = "up"
    /\ \E t \in BagToSet(threads) :
          /\ t.k = "Stop" /\ t.pc = "wait"
          /\ WaitReturns
          /\ mutex' = FALSE
          /\ Leave(t)
          /\ lastRet' = [Ret("Stop", "ok") EXCEPT
                            !.lost = stopSnap \ Written,
                            !.alive = AliveOf("worker", "a", t.g) + AliveOf("worker", "p", t.g),
                            !.st0 = t.st0]
    /\ UNCHANGED <<running, proc, wg, nchan, logChan, aLoglevel, ncalls, enq, stopSnap>>
    /\ UNCHANGED chanVars
    /\ UNCHANGED fileVars

\* ---------------------------------------------------------------- API calls

LevelOf(op) == CASE op = "Debug" -> DEBUG
                 [] op = "Info" -> INFO
                 [] op = "Warn" -> WARN
                 [] op = "Error" -> ERROR
                 [] op = "Fatal" -> FATAL

\* the level test off by one: aLoglevel >= level
SuppressedAtThreshold(level) == aLoglevel >= level

\* the level test of decorateAppLogEntry: the entry is suppressed ("" is returned)
Suppressed(level) == aLoglevel > level

\* decorateAppLogEntry: NoMsg stands for the empty string
decorateAppLogEntry(level, id, len) ==
    IF Suppressed(level) THEN NoMsg
    ELSE [id |-> id, len |-> len, lvl |-> level, thr |-> aLoglevel]

\* decoratePublicAccessLogEntry: never empty, no level
decoratePublicAccessLogEntry(id, len) == [id |-> id, len |-> len, lvl |-> 0, thr |-> 0]

\* the running check that opens Debug, Info, Warn, Error and Fatal
NotRunning == ~running

\* every call writes the file itself, as Fatal does
PathSync(op) == "inc"

\* what a call does with its formatted entry: Fatal calls doAppLogWrite itself (the
\* write path starts at "inc"), the other calls send the entry on the channel
Path(op) == IF op = "Fatal" THEN "inc" ELSE "send"

\* Debug / Info / Warn / Error up to the channel send, as one of at most max calls
SubmitOf(op, len, max) ==
    /\ proc = "up"
    /\ ncalls < max
    /\ ncalls' = ncalls + 1
    /\ LET s == decorateAppLogEntry(LevelOf(op), ncalls + 1, len)
       IN IF NotRunning
          THEN /\ lastRet' = [Ret(op, "dropped") EXCEPT !.st0 = Stopped]
               /\ UNCHANGED threads
          ELSE IF s = NoMsg
          THEN /\ lastRet' = [Ret(op, "suppressed") EXCEPT
                                 !.m = [NoMsg EXCEPT !.id = ncalls + 1, !.lvl = LevelOf(op),
                                                    !.thr = aLoglevel]]
               /\ UNCHANGED threads
          ELSE /\ threads' = threads (+) One(Thread(op, "a", 0, Path(op), s, Stopped))
               /\ UNCHANGED lastRet
    /\ UNCHANGED <<running, proc, mutex, wg, nchan, logChan, aLoglevel, enq, stopSnap>>
    /\ UNCHANGED chanVars
    /\ UNCHANGED fileVars

Submit(op, len) == SubmitOf(op, len, MaxCalls)

\* appLogChan <- s: the channel is the one the variable names when the send runs
AppSend ==
    /\ proc = "up"
    /\ \E t \in BagToSet(threads) :
          /\ t.s = "a" /\ t.pc = "send"
          /\ LET g == logChan["a"]
             IN IF g = 0
                THEN \* a send on the nil channel blocks forever
                     /\ Move(t, [t EXCEPT !.pc = "nil"])
                     /\ UNCHANGED <<proc, chanBuf, enq, lastRet>>
                ELSE IF chanClosed["a"][g]
                THEN /\ proc' = "panic"
                     /\ lastRet' = [Ret(t.k, "send on closed channel") EXCEPT
                                       !.m = t.m, !.st0 = t.st0]
                     /\ UNCHANGED <<chanBuf, enq, threads>>
                ELSE /\ Len(chanBuf["a"][g]) < AppChanCap
                     /\ chanBuf' = [chanBuf EXCEPT !["a"][g] = Append(@, t.m)]
                     /\ enq' = enq \cup {t.m.id}
                     /\ Leave(t)
                     /\ lastRet' = [Ret(t.k, "sent") EXCEPT !.m = t.m, !.st0 = t.st0]
                     /\ UNCHANGED proc
    /\ UNCHANGED <<running, mutex, wg, nchan, logChan, aLoglevel, ncalls, stopSnap,
                   chanClosed>>
    /\ UNCHANGED fileVars

\* Public: publicLogChan <- decoratePublicAccessLogEntry(...), with no running check;
\* the channel is unbuffered, so the sender waits for a worker; one of at most max
\* calls
PublicOf(len, max) ==
    /\ proc = "up"
    /\ ncalls < max
    /\ ncalls' = ncalls + 1
    /\ LET m == decoratePublicAccessLogEntry(ncalls + 1, len)
           g == logChan["p"]
       IN IF g = 0
          THEN /\ threads' = threads (+) One(Thread("Public", "p", 0, "nil", m, Stopped))
               /\ UNCHANGED <<proc, lastRet>>
          ELSE IF chanClosed["p"][g]
          THEN /\ proc' = "panic"
               /\ lastRet' = [Ret("Public", "send on closed channel") EXCEPT
                                 !.m = m, !.st0 = Stopped]
               /\ UNCHANGED threads
          ELSE /\ threads' = threads (+) One(Thread("Public", "p", g, "blocked", m, Stopped))
               /\ UNCHANGED <<proc, lastRet>>
    /\ UNCHANGED <<running, mutex, wg, nchan, logChan, aLoglevel, enq, stopSnap>>
    /\ UNCHANGED chanVars
    /\ UNCHANGED fileVars

Public(len) == PublicOf(len, MaxCalls)

\* close() of a channel wakes the senders blocked on it, and they panic
PublicSendPanics ==
    /\ proc = "up"
    /\ \E t \in BagToSet(threads) :
          /\ t.k = "Public" /\ t.pc = "blocked"
          /\ chanClosed["p"][t.g]
          /\ proc' = "panic"
          /\ lastRet' = [Ret("Public", "send on closed channel") EXCEPT
                            !.m = t.m, !.st0 = t.st0]
    /\ UNCHANGED <<running, mutex, wg, nchan, logChan, aLoglevel, threads, ncalls, enq,
                   stopSnap>>
    /\ UNCHANGED chanVars
    /\ UNCHANGED fileVars

\* Fatal up to doAppLogWrite: the caller itself enters the write path; one of at
\* most max calls
FatalOf(len, max) ==
    /\ proc = "up"
    /\ ncalls < max
    /\ ncalls' = ncalls + 1
    /\ LET s == decorateAppLogEntry(FATAL, ncalls + 1, len)
       IN IF NotRunning
          THEN /\ lastRet' = [Ret("Fatal", "dropped") EXCEPT
                                 !.m = [NoMsg EXCEPT !.id = ncalls + 1], !.st0 = Stopped]
               /\ UNCHANGED threads
          ELSE IF s = NoMsg
          THEN /\ lastRet' = Ret("Fatal", "suppressed")
               /\ UNCHANGED threads
          ELSE /\ threads' = threads (+) One(Thread("Fatal", "a", 0, Path("Fatal"), s,
                                                     Stopped))
               /\ UNCHANGED lastRet
    /\ UNCHANGED <<running, proc, mutex, wg, nchan, logChan, aLoglevel, enq, stopSnap>>
    /\ UNCHANGED chanVars
    /\ UNCHANGED fileVars

Fatal(len) == FatalOf(len, MaxCalls)

\* SetAppLogLevel(level) with a valid level
SetAppLogLevel(level) ==
    /\ proc = "up"
    /\ level \in FilterLevels
    /\ aLoglevel # level
    /\ aLoglevel' = level
    /\ UNCHANGED <<running, proc, mutex, wg, nchan, logChan, threads, ncalls, enq,
                   stopSnap, lastRet>>
    /\ UNCHANGED chanVars
    /\ UNCHANGED fileVars

\* ------------------------------------------------------------------ workers

\* appLogWrite / publicAccessLogWrite: wg.Add(1), run by the goroutine itself
WorkerBegin(s) ==
    /\ proc = "up"
    /\ \E t \in BagToSet(threads) :
          /\ t.s = s /\ t.k = "worker" /\ t.pc = "init"
          /\ wg' = wg + 1
          /\ Move(t, [t EXCEPT !.pc = "recv"])
    /\ UNCHANGED <<running, proc, mutex, nchan, logChan, aLoglevel, ncalls, enq, stopSnap,
                   lastRet>>
    /\ UNCHANGED chanVars
    /\ UNCHANGED fileVars

\* msg, more = <-appDataChannel with a message in the buffer
AppRecv ==
    /\ proc = "up"
    /\ \E t \in BagToSet(threads) :
          /\ t.k = "worker" /\ t.s = "a" /\ t.pc = "recv"
          /\ chanBuf["a"][t.g] # <<>>
          /\ chanBuf' = [chanBuf EXCEPT !["a"][t.g] = Tail(@)]
          /\ Move(t, [t EXCEPT !.pc = "inc", !.m = Head(chanBuf["a"][t.g])])
    /\ UNCHANGED <<running, proc, mutex, wg, nchan, logChan, aLoglevel, ncalls, enq,
                   stopSnap, lastRet, chanClosed>>
    /\ UNCHANGED fileVars

\* msg, more = <-publicDataChannel meeting a blocked sender, whose Public returns
PublicRecv ==
    /\ proc = "up"
    /\ \E t \in BagToSet(threads), u \in BagToSet(threads) :
          /\ t.k = "worker" /\ t.s = "p" /\ t.pc = "recv"
          /\ u.k = "Public" /\ u.pc = "blocked" /\ u.g = t.g
          /\ ~chanClosed["p"][t.g]
          /\ threads' = ((threads (-) One(t)) (-) One(u))
                           (+) One([t EXCEPT !.pc = "inc", !.m = u.m])
          /\ enq' = enq \cup {u.m.id}
          /\ lastRet' = [Ret("Public", "sent") EXCEPT !.m = u.m, !.st0 = u.st0]
    /\ UNCHANGED <<running, proc, mutex, wg, nchan, logChan, aLoglevel, ncalls, stopSnap>>
    /\ UNCHANGED chanVars
    /\ UNCHANGED fileVars

\* the receive yields ("", false): the channel is closed and empty; the loop ends
\* and the deferred wg.Done() runs
WorkerExit(s) ==
    /\ proc = "up"
    /\ \E t \in BagToSet(threads) :
          /\ t.s = s /\ t.k = "worker" /\ t.pc = "recv"
          /\ chanClosed[t.s][t.g]
          /\ chanBuf[t.s][t.g] = <<>>
          /\ wg' = wg - 1
          /\ Move(t, [t EXCEPT !.pc = "exit"])
    /\ UNCHANGED <<running, proc, mutex, nchan, logChan, aLoglevel, ncalls, enq, stopSnap,
                   lastRet>>
    /\ UNCHANGED chanVars
    /\ UNCHANGED fileVars

\* --------------------------------------------------------------- write path
\* doAppLogWrite / doPublicAccessLogWrite, run by a worker or by a Fatal caller

Writer(t) == t.k \in {"worker", "Fatal"}

\* aRotateCounter++ is a read and a write of a variable that no lock guards: this
\* is the read
WriteCount(s) ==
    /\ proc = "up"
    /\ \E t \in BagToSet(threads) :
          /\ t.s = s /\ Writer(t) /\ t.pc = "inc"
          /\ Move(t, [t EXCEPT !.pc = "store", !.n = rotateCounter[t.s]])
    /\ UNCHANGED <<running, proc, mutex, wg, nchan, logChan, aLoglevel, ncalls, enq,
                   stopSnap, lastRet>>
    /\ UNCHANGED fileVars
    /\ UNCHANGED chanVars

\* the write of aRotateCounter++: the value read, plus one
WriteStore(s) ==
    /\ proc = "up"
    /\ \E t \in BagToSet(threads) :
          /\ t.s = s /\ Writer(t) /\ t.pc = "store"
          /\ rotateCounter' = [rotateCounter EXCEPT ![t.s] = t.n + 1]
          /\ Move(t, [t EXCEPT !.pc = "test", !.n = 0])
    /\ UNCHANGED <<running, proc, mutex, wg, nchan, logChan, aLoglevel, ncalls, enq,
                   stopSnap, lastRet>>
    /\ UNCHANGED <<logSuffix, rotateLock, logFile, inodes, dir, now>>
    /\ UNCHANGED chanVars

\* the test that guards the size check
ChecksSize(s) == rotateCounter[s] <= RotateCheckLimit

\* if aRotateCounter <= 10 { aRotateCounter = 0; aFileRotateLock.Lock() ...
WriteTest(s) ==
    /\ proc = "up"
    /\ \E t \in BagToSet(threads) :
          /\ t.s = s /\ Writer(t) /\ t.pc = "test"
          /\ IF ChecksSize(t.s)
             THEN /\ rotateCounter' = [rotateCounter EXCEPT ![t.s] = 0]
                  /\ Move(t, [t EXCEPT !.pc = "lock"])
             ELSE /\ Move(t, [t EXCEPT !.pc = "rlock"])
                  /\ UNCHANGED rotateCounter
    /\ UNCHANGED <<running, proc, mutex, wg, nchan, logChan, aLoglevel, ncalls, enq,
                   stopSnap, lastRet>>
    /\ UNCHANGED <<logSuffix, rotateLock, logFile, inodes, dir, now>>
    /\ UNCHANGED chanVars

\* aFileRotateLock.Lock() is granted
WriteLock(s) ==
    /\ proc = "up"
    /\ \E t \in BagToSet(threads) :
          /\ t.s = s /\ Writer(t) /\ t.pc = "lock"
          /\ ~rotateLock[t.s].w /\ rotateLock[t.s].r = 0
          /\ rotateLock' = [rotateLock EXCEPT ![t.s].w = TRUE]
          /\ Move(t, [t EXCEPT !.pc = "rot"])
    /\ UNCHANGED <<running, proc, mutex, wg, nchan, logChan, aLoglevel, ncalls, enq,
                   stopSnap, lastRet>>
    /\ UNCHANGED <<logSuffix, rotateCounter, logFile, inodes, dir, now>>
    /\ UNCHANGED chanVars

\* the comparison without the conversion of maxSize from KB to bytes
needRotationInBytes(f, maxSize) ==
    /\ f.open
    /\ inodes[f.ino].size > maxSize

\* needRotation: Stat of a closed handle fails and the answer is false
needRotation(f, maxSize) ==
    /\ f.open
    /\ inodes[f.ino].size > maxSize * KB

\* f.Close(): the handle is closed and the file loses one open handle
Close(f, I) == IF f.open THEN [I EXCEPT ![f.ino].fds = @ - 1] ELSE I

\* rotate after appLogFile.Close(): o is "ok" or the call that fails ("stat",
\* "rename", "open"); yields [logSuffix, logFile, inodes, dir] of stream s. The
\* archive is named by today's date and the first free suffix; os.Rename keeps the
\* file's modification time
rotate(s, o) ==
    LET closed == [logFile[s] EXCEPT !.open = FALSE]
        shut == Close(logFile[s], inodes)
        n == FirstFree(dir[s].arch, now, logSuffix[s])
        named == [shut EXCEPT ![dir[s].live].rot = <<now, n>>]
        i == Len(inodes) + 1
        moved == [dir[s] EXCEPT !.live = 0,
                                !.arch = (<<now, n>> :> dir[s].live) @@ dir[s].arch]
    IN IF o = "stat"
       THEN [logSuffix |-> logSuffix[s], logFile |-> closed, inodes |-> shut,
             dir |-> dir[s]]
       ELSE IF o = "rename" \/ dir[s].live = 0
       THEN [logSuffix |-> n, logFile |-> closed, inodes |-> shut, dir |-> dir[s]]
       ELSE IF o = "open"
       THEN [logSuffix |-> n, logFile |-> closed, inodes |-> named, dir |-> moved]
       ELSE [logSuffix |-> n + 1, logFile |-> [ino |-> i, open |-> TRUE],
             inodes |-> Append(named, NewFile(s, now)),
             dir |-> [moved EXCEPT !.live = i]]

\* the section under the exclusive lock: the size check, the rotation, Unlock
WriteRotate(s, o) ==
    /\ proc = "up"
    /\ \E t \in BagToSet(threads) :
          /\ t.s = s /\ Writer(t) /\ t.pc = "rot"
          /\ IF logFile[t.s].ino = 0
             THEN \* needRotation(nil): Stat fails and f.Name() dereferences nil
                  /\ proc' = "panic"
                  /\ lastRet' = [Ret(t.k, "nil dereference") EXCEPT !.m = t.m]
                  /\ UNCHANGED <<logSuffix, rotateLock, logFile, inodes, dir, threads>>
             ELSE /\ IF needRotation(logFile[t.s], LogMaxSize)
                     THEN LET r == rotate(t.s, o)
                          IN /\ logSuffix' = [logSuffix EXCEPT ![t.s] = r.logSuffix]
                             /\ logFile' = [logFile EXCEPT ![t.s] = r.logFile]
                             /\ inodes' = r.inodes
                             /\ dir' = [dir EXCEPT ![t.s] = r.dir]
                     ELSE /\ o = "ok"
                          /\ UNCHANGED <<logSuffix, logFile, inodes, dir>>
                  /\ rotateLock' = [rotateLock EXCEPT ![t.s].w = FALSE]
                  /\ Move(t, [t EXCEPT !.pc = "rlock"])
                  /\ UNCHANGED <<proc, lastRet>>
    /\ UNCHANGED <<running, mutex, wg, nchan, logChan, aLoglevel, ncalls, enq, stopSnap,
                   rotateCounter, now>>
    /\ UNCHANGED chanVars

\* a shared lock granted whatever the state of the lock
RLockFreeAlways(s) == TRUE

\* RLock() is granted when no goroutine holds the lock exclusively
RLockFree(s) == ~rotateLock[s].w

\* aFileRotateLock.RLock() is granted
WriteRLock(s) ==
    /\ proc = "up"
    /\ \E t \in BagToSet(threads) :
          /\ t.s = s /\ Writer(t) /\ t.pc = "rlock"
          /\ RLockFree(t.s)
          /\ rotateLock' = [rotateLock EXCEPT ![t.s].r = @ + 1]
          /\ Move(t, [t EXCEPT !.pc = "write"])
    /\ UNCHANGED <<running, proc, mutex, wg, nchan, logChan, aLoglevel, ncalls, enq,
                   stopSnap, lastRet>>
    /\ UNCHANGED <<logSuffix, rotateCounter, logFile, inodes, dir, now>>
    /\ UNCHANGED chanVars

\* appLogFile.Write([]byte(msg)): a closed or nil handle returns an error, which is
\* dropped
FileWrite(f, m) ==
    IF f.open
    THEN [inodes EXCEPT ![f.ino].msgs = @ \cup {m}, ![f.ino].size = @ + m.len,
                        ![f.ino].mtime = now]
    ELSE inodes

\* the write, RUnlock, and the return: a worker goes back to its receive, a Fatal
\* caller goes on to os.Exit(1)
WriteMsg(s) ==
    /\ proc = "up"
    /\ \E t \in BagToSet(threads) :
          /\ t.s = s /\ Writer(t) /\ t.pc = "write"
          /\ inodes' = FileWrite(logFile[t.s], t.m)
          /\ rotateLock' = [rotateLock EXCEPT ![t.s].r = @ - 1]
          /\ IF t.k = "Fatal"
             THEN /\ proc' = "exit1"
                  /\ Leave(t)
                  /\ lastRet' = [Ret("Fatal", "exit") EXCEPT !.m = t.m, !.st0 = t.st0]
             ELSE /\ Move(t, [t EXCEPT !.pc = "recv", !.m = NoMsg])
                  /\ UNCHANGED <<proc, lastRet>>
    /\ UNCHANGED <<running, mutex, wg, nchan, logChan, aLoglevel, ncalls, enq, stopSnap>>
    /\ UNCHANGED <<logSuffix, rotateCounter, logFile, dir, now>>
    /\ UNCHANGED chanVars

\* -------------------------------------------------------------------- purge

\* aLogName / pLogName
BaseName(s) == IF s = "a" THEN "application.log" ELSE "access.log"

\* ioutil.ReadDir(folder): both streams log to the same folder, whose entries are the
\* live files and the archives; an entry is <<stream, <<>>>> or <<stream, <<date, n>>>>
Entries ==
    UNION {(IF dir[s].live = 0 THEN {} ELSE {<<s, <<>>>>})
              \cup {<<s, k>> : k \in DOMAIN dir[s].arch} : s \in Streams}

\* f.Name(), as its parts: the live file is the base name, an archive is
\* date-suffix-base name
Name(e) == IF e[2] = <<>> THEN <<BaseName(e[1])>>
           ELSE <<e[2][1], e[2][2], BaseName(e[1])>>

\* f.ModTime()
ModTime(e) == IF e[2] = <<>> THEN inodes[dir[e[1]].live].mtime
              ELSE inodes[dir[e[1]].arch[e[2]]].mtime

\* strings.HasSuffix(name, suffix), the suffix being a base name
HasSuffix(name, suffix) == name[Len(name)] = suffix

\* t.Before(u)
Before(time, then) == time < then

\* the entries of the listing that pass the two tests of the purge loop of stream s
Purged(s) ==
    LET then == now - LogMaxAge
    IN {e \in Entries : HasSuffix(Name(e), BaseName(s)) /\ Before(ModTime(e), then)}

\* one pass of purgeFiles' loop up to the removals: the running test, the cutoff,
\* ioutil.ReadDir and the tests on the names and modification times it returned
PurgeScan(s) ==
    /\ proc = "up"
    /\ \E t \in BagToSet(threads) :
          /\ t.s = s /\ t.k = "purge" /\ t.pc = "loop"
          /\ IF running
             THEN Move(t, [t EXCEPT !.pc = "remove", !.files = Purged(t.s)])
             ELSE Move(t, [t EXCEPT !.pc = "exit"])
    /\ UNCHANGED <<running, proc, mutex, wg, nchan, logChan, aLoglevel, ncalls, enq,
                   stopSnap, lastRet>>
    /\ UNCHANGED fileVars
    /\ UNCHANGED chanVars

\* os.Remove(path) of the entries chosen from the listing: it removes whatever file
\* is at the path by now, and fails on a path that is gone
PurgeRemove(s) ==
    /\ proc = "up"
    /\ \E t \in BagToSet(threads) :
          /\ t.s = s /\ t.k = "purge" /\ t.pc = "remove"
          /\ dir' = [u \in Streams |->
                       [live |-> IF <<u, <<>>>> \in t.files THEN 0 ELSE dir[u].live,
                        arch |-> [k \in {j \in DOMAIN dir[u].arch : <<u, j>> \notin t.files}
                                    |-> dir[u].arch[k]]]]
          /\ Move(t, [t EXCEPT !.pc = "sleep", !.files = {}])
    /\ UNCHANGED <<running, proc, mutex, wg, nchan, logChan, aLoglevel, ncalls, enq,
                   stopSnap, lastRet>>
    /\ UNCHANGED <<logSuffix, rotateCounter, rotateLock, logFile, inodes, now>>
    /\ UNCHANGED chanVars

\* time.Sleep(1 * time.Minute) returns
PurgeWake(s) ==
    /\ proc = "up"
    /\ \E t \in BagToSet(threads) :
          /\ t.s = s /\ t.k = "purge" /\ t.pc = "sleep"
          /\ Move(t, [t EXCEPT !.pc = "loop"])
    /\ UNCHANGED <<running, proc, mutex, wg, nchan, logChan, aLoglevel, ncalls, enq,
                   stopSnap, lastRet>>
    /\ UNCHANGED fileVars
    /\ UNCHANGED chanVars

\* -------------------------------------------------------------------- clock

\* midnight passes: time.Now() is a day later
NextDay ==
    /\ proc = "up"
    /\ now < Day0 + MaxDayChanges
    /\ now' = now + 1
    /\ UNCHANGED <<running, proc, mutex, wg, nchan, logChan, aLoglevel, threads, ncalls,
                   enq, stopSnap, lastRet>>
    /\ UNCHANGED <<logSuffix, rotateCounter, rotateLock, logFile, inodes, dir>>
    /\ UNCHANGED chanVars

\* ----------------------------------------------------------- specifications

SubmitOps == {"Debug", "Info", "Warn", "Error"}

\* a worker of stream s, from its launch to its exit
Worker(s) ==
    \/ WorkerBegin(s)
    \/ WorkerExit(s)
    \/ WriteCount(s)
    \/ WriteStore(s)
    \/ WriteTest(s)
    \/ WriteLock(s)
    \/ WriteRotate(s, "ok")
    \/ WriteRLock(s)
    \/ WriteMsg(s)

\* the application stream alone: the goroutines of the access stream are launched
\* and never scheduled
NextApp ==
    \/ Start(TRUE, TRUE)
    \/ StopBegin
    \/ StopReturn
    \/ \E len \in {MaxMsgLen} : Submit("Info", len)
    \/ AppSend
    \/ AppRecv
    \/ Worker("a")

SpecApp == Init /\ [][NextApp]_vars

\* the access stream alone: the goroutines of the application stream are
\* launched and never scheduled
NextPub ==
    \/ Start(TRUE, TRUE)
    \/ StopBegin
    \/ StopReturn
    \/ \E len \in {MaxMsgLen} : Public(len)
    \/ PublicSendPanics
    \/ PublicRecv
    \/ Worker("p")

SpecPub == Init /\ [][NextPub]_vars

\* the access stream with Start's opens failing or not
NextOpen ==
    \/ \E okA \in BOOLEAN, okP \in BOOLEAN : Start(okA, okP)
    \/ StopBegin
    \/ StopReturn
    \/ \E len \in {MaxMsgLen} : Public(len)
    \/ PublicSendPanics
    \/ PublicRecv
    \/ Worker("p")

SpecOpen == Init /\ [][NextOpen]_vars

\* Start and Stop, the opens failing or not, with the goroutines Start launches:
\* the application workers registering and exiting, the purge loops looping; no
\* message, and the access workers never scheduled
NextStart ==
    \/ \E okA \in BOOLEAN, okP \in BOOLEAN : Start(okA, okP)
    \/ StopBegin
    \/ StopReturn
    \/ WorkerBegin("a")
    \/ WorkerExit("a")
    \/ \E s \in Streams : PurgeScan(s)
    \/ \E s \in Streams : PurgeRemove(s)
    \/ \E s \in Streams : PurgeWake(s)

SpecStart == Init /\ [][NextStart]_vars

\* the application stream with Fatal callers
NextFatal ==
    \/ NextApp
    \/ \E len \in {MaxMsgLen} : Fatal(len)

SpecFatal == Init /\ [][NextFatal]_vars

\* the application stream over a folder that is empty or holds a live file of
\* exactly the maximum size
InitRotate == InitWith({INFO}, {0, LogMaxSize * KB})

SpecRotate == InitRotate /\ [][NextApp]_vars

\* the four filterable levels against the four thresholds, the engine running on
NextLevels ==
    \/ Start(TRUE, TRUE)
    \/ \E op \in SubmitOps, len \in {MaxMsgLen} : SubmitOf(op, len, MaxLevelCalls)
    \/ AppSend
    \/ AppRecv
    \/ WorkerBegin("a")
    \/ WriteCount("a")
    \/ WriteStore("a")
    \/ WriteTest("a")
    \/ WriteLock("a")
    \/ WriteRotate("a", "ok")
    \/ WriteRLock("a")
    \/ WriteMsg("a")

InitLevels == InitWith(FilterLevels, {0})

\* the Go scheduler runs every runnable goroutine: a sender or a worker that can
\* take its next step eventually takes it
FairWorkers ==
    /\ WF_vars(AppSend)
    /\ WF_vars(WorkerBegin("a"))
    /\ WF_vars(AppRecv)
    /\ WF_vars(WriteCount("a"))
    /\ WF_vars(WriteStore("a"))
    /\ WF_vars(WriteTest("a"))
    /\ WF_vars(WriteLock("a"))
    /\ WF_vars(WriteRotate("a", "ok"))
    /\ WF_vars(WriteRLock("a"))
    /\ WF_vars(WriteMsg("a"))

SpecLevels == InitLevels /\ [][NextLevels]_vars /\ FairWorkers

\* ------------------------------------------------------------------- claims

\* C1: every message enqueued on a channel before Stop was called is in the live
\* file or an archive when that Stop returns.
NoMessageLostAcrossStop ==
    (lastRet.op = "Stop" /\ lastRet.res = "ok") => lastRet.lost = {}

\* C2: when Stop returns, every worker launched by the preceding Start has exited.
StopIsJoinBarrier ==
    (lastRet.op = "Stop" /\ lastRet.res = "ok") => lastRet.alive = 0

\* C3: a Debug, Info, Warn, Error or Public call made while the engine is Stopped
\* returns at once as a no-op: it is never left waiting on a channel, it does not
\* panic and it enqueues nothing.
SubmitWhenStoppedIsNoop ==
    /\ \A t \in BagToSet(threads) : t.k \in SubmitOps \cup {"Public"} => ~t.st0
    /\ (lastRet.op \in SubmitOps \cup {"Public"} /\ lastRet.st0) => lastRet.res = "dropped"

\* C4: a submit call that runs concurrently with a Stop (made while the engine is
\* not Stopped) either enqueues its message or drops it: it never sends on a closed
\* channel.
SubmitNeverSendsOnClosed ==
    (lastRet.op \in SubmitOps \cup {"Public"} /\ ~lastRet.st0)
        => lastRet.res # "send on closed channel"

\* C5: Stop never closes a nil or an already closed channel: every Stop, in any
\* state and after any sequence of Start and Stop calls, returns normally.
StopNeverPanics ==
    lastRet.op = "Stop" => lastRet.res = "ok"

\* C6: a Start call on a running engine returns success and changes nothing: the
\* channels, the file handles, the files, the suffixes, the workers and the purge
\* loops are as before; a Start that returns success leaves the engine running;
\* and while the engine runs, exactly NUM_LOGGING_ROUTINES workers and one purge
\* loop per stream have been launched for the current channels.
StartIdempotent ==
    /\ [][(running /\ \E okA \in BOOLEAN, okP \in BOOLEAN : Start(okA, okP)) =>
              /\ lastRet'.op = "Start" /\ lastRet'.res = "ok"
              /\ UNCHANGED <<running, proc, mutex, wg, nchan, logChan, chanBuf, chanClosed,
                             logSuffix, rotateCounter, rotateLock, logFile, inodes, dir,
                             now, threads>>]_vars
    /\ [][((\E okA \in BOOLEAN, okP \in BOOLEAN : Start(okA, okP)) /\ lastRet'.res = "ok")
              => running']_vars
    /\ [](running => \A s \in Streams :
              /\ LaunchedOf("worker", s, logChan[s]) = NUM_LOGGING_ROUTINES
              /\ LaunchedOf("purge", s, logChan[s]) = 1)

\* C6 witness: a Start made while the engine was running has returned success, with
\* workers of the first Start registered and the engine still running.
StartIdempotentWitness ==
    /\ lastRet.op = "Start" /\ lastRet.res = "ok" /\ ~lastRet.st0
    /\ running /\ wg > 0
    /\ LaunchedOf("worker", "a", logChan["a"]) = NUM_LOGGING_ROUTINES

\* C7: when an open fails, Start returns the error with the engine Stopped and no
\* worker or purge loop launched, and a submit call made afterwards is a no-op: it
\* is not left waiting on the channel that Start made.
StartFailureLeavesStopped ==
    /\ (lastRet.op = "Start" /\ lastRet.res = "err") =>
          /\ ~running
          /\ \A s \in Streams : LaunchedOf("worker", s, nchan) = 0
          /\ \A s \in Streams : LaunchedOf("purge", s, nchan) = 0
    /\ \A t \in BagToSet(threads) :
          (t.k \in SubmitOps \cup {"Public"} /\ t.st0 /\ t.g > 0)
              => LaunchedOf("worker", t.s, t.g) > 0

\* C8: every Fatal call, in any engine state, writes its message to the application
\* log and ends the process with status 1: it never returns to its caller.
FatalWritesAndExits ==
    lastRet.op = "Fatal" =>
        /\ lastRet.res = "exit"
        /\ proc = "exit1"
        /\ lastRet.m.id \in Written

\* the filter, state by state: whatever is on its way to the log passed the test
\* T <= L, and the call that last returned "suppressed" failed it and left nothing
LevelFilterSafe ==
    /\ \A t \in BagToSet(threads) : t.m # NoMsg => t.m.thr <= t.m.lvl
    /\ \A g \in 1..nchan : \A i \in 1..Len(chanBuf["a"][g]) :
          chanBuf["a"][g][i].thr <= chanBuf["a"][g][i].lvl
    /\ \A m \in MsgsOf(1..Len(inodes)) : m.thr <= m.lvl
    /\ lastRet.res = "sent" => lastRet.m.thr <= lastRet.m.lvl
    /\ lastRet.res = "suppressed" =>
          /\ lastRet.m.thr > lastRet.m.lvl
          /\ lastRet.m.id \notin enq \cup Written
          /\ \A t \in BagToSet(threads) : t.m.id # lastRet.m.id

\* C9: with the engine running, a message of level L submitted under threshold T
\* goes to the channel if and only if T <= L, a suppressed message is never
\* enqueued, and every enqueued message is eventually written to the log.
LevelFilter ==
    /\ []LevelFilterSafe
    /\ \A id \in 1..MaxLevelCalls : (id \in enq) ~> (id \in Written)

\* C9 witness: an ERROR-threshold run in which a message at the threshold itself
\* has been enqueued and written.
LevelFilterWitness ==
    /\ aLoglevel = ERROR
    /\ \E m \in MsgsOf(1..Len(inodes)) : m.thr = m.lvl /\ m.lvl = ERROR /\ m.id \in enq

\* C10: the live file of a stream never exceeds the maximum size by more than one
\* message.
LiveSizeBound ==
    \A s \in Streams : LiveSize(s) <= LogMaxSize * KB + MaxMsgLen


\* --------------------------------------------------------- archives (C11)

\* the application stream alone, fed Info messages of one or two KB from an empty
\* folder; every rotation succeeds
NextArchive ==
    \/ Start(TRUE, TRUE)
    \/ \E len \in {MaxMsgLen, 2 * MaxMsgLen} : Submit("Info", len)
    \/ AppSend
    \/ WorkerBegin("a")
    \/ AppRecv
    \/ WriteCount("a")
    \/ WriteStore("a")
    \/ WriteTest("a")
    \/ WriteLock("a")
    \/ WriteRotate("a", "ok")
    \/ WriteRLock("a")
    \/ WriteMsg("a")

SpecArchive == Init /\ [][NextArchive]_vars

\* the bytes in the files stream s made (live file and archives)
RECURSIVE SizeOf(_)
SizeOf(I) == IF I = {} THEN 0
             ELSE LET i == CHOOSE j \in I : TRUE
                  IN inodes[i].size + SizeOf(I \ {i})
TotalBytes(s) == SizeOf({i \in 1..Len(inodes) : inodes[i].s = s})

\* the suffixes of the archives of stream s that carry date d
SuffixesOf(s, d) == {k[2] : k \in {j \in DOMAIN dir[s].arch : j[1] = d}}

CeilDiv(a, b) == (a + b - 1) \div b

\* every message submitted so far is in a file
AllWritten == ncalls > 0 /\ Written = 1..ncalls

InitOverMax == InitWith({INFO}, {LogMaxSize * KB + 1})

NextDate ==
    \/ Start(TRUE, TRUE)
    \/ Submit("Info", 2 * MaxMsgLen)
    \/ AppSend
    \/ WorkerBegin("a")
    \/ AppRecv
    \/ WriteCount("a")
    \/ WriteStore("a")
    \/ WriteTest("a")
    \/ WriteLock("a")
    \/ WriteRotate("a", "ok")
    \/ WriteRLock("a")
    \/ WriteMsg("a")
    \/ NextDay

SpecDate == InitOverMax /\ [][NextDate]_vars

\* the dates the archives of stream s carry
DatesOf(s) == {k[1] : k \in DOMAIN dir[s].arch}

\* C13: in a folder that held no archive, the archives of each date and stream carry
\* the suffixes 0, 1, 2, ... without gaps, the first archive of a date having suffix 0
SuffixesStartAtZero ==
    \A s \in Streams : \A d \in DatesOf(s) :
        SuffixesOf(s, d) = 0..(Cardinality(SuffixesOf(s, d)) - 1)

\* ---------------------------------------------------- archive names (C12)

\* a day older than the purge cutoff of the day the run begins on
OldDay == Day0 - LogMaxAge - 1

\* application.log of an earlier run is over the maximum and was last written before
\* the cutoff; the folder holds one archive of today, suffix 0
InitNames == InitFolder({INFO}, {LogMaxSize * KB + 1}, {OldDay}, {Day0})

\* the application stream over Stop/Start cycles, with its purge loop scanning once
\* per Start; the scheduler lets one worker run at a time
NextNames ==
    \/ StartOf(TRUE, TRUE, MaxRestarts)
    \/ StopBegin
    \/ StopReturn
    \/ Submit("Info", 2 * MaxMsgLen)
    \/ AppSend
    \/ (WorkerBegin("a") /\ wg = 0)
    \/ AppRecv
    \/ WorkerExit("a")
    \/ WriteCount("a")
    \/ WriteStore("a")
    \/ WriteTest("a")
    \/ WriteLock("a")
    \/ WriteRotate("a", "ok")
    \/ WriteRLock("a")
    \/ WriteMsg("a")
    \/ PurgeScan("a")
    \/ PurgeRemove("a")

SpecNames == InitNames /\ [][NextNames]_vars

\* the files of stream s that a rotation of this run has archived, in the order of
\* their creation (a file is archived before its successor is created)
Rotated(s) == {i \in 1..Len(inodes) : inodes[i].s = s /\ inodes[i].rot # <<>>}

\* C12: the rotations of a stream on one date take strictly increasing suffixes, so
\* no two of them produce the same archive name (rotate's os.Stat keeps a rename
\* from landing on a path that exists)
ArchiveNamesNeverReused ==
    \A s \in Streams : \A i \in Rotated(s), j \in Rotated(s) :
        (i < j /\ inodes[i].rot[1] = inodes[j].rot[1])
            => inodes[i].rot[2] < inodes[j].rot[2]

\* --------------------------------------------------- rotation failure (C14)

\* the outcomes of a rotation: it succeeds, or os.Stat of the archive path, os.Rename
\* or os.OpenFile fails
Outcomes == {"ok", "stat", "rename", "open"}

\* the application stream with rotations that can fail, the live file being over the
\* maximum when the run begins
NextRotFail ==
    \/ Start(TRUE, TRUE)
    \/ Submit("Info", MaxMsgLen)
    \/ AppSend
    \/ WorkerBegin("a")
    \/ AppRecv
    \/ WriteCount("a")
    \/ WriteStore("a")
    \/ WriteTest("a")
    \/ WriteLock("a")
    \/ \E o \in Outcomes : WriteRotate("a", o)
    \/ WriteRLock("a")
    \/ WriteMsg("a")

SpecRotFail == InitOverMax /\ [][NextRotFail]_vars

\* the messages on their way: in a channel buffer or in the hands of a goroutine
InFlight ==
    UNION {{chanBuf[s][g][n].id : n \in 1..Len(chanBuf[s][g])} :
              s \in Streams, g \in 1..nchan}
      \cup {t.m.id : t \in BagToSet(threads)}

\* C14: whatever a rotation attempt did, the stream's handle stays usable and every
\* message a worker has taken ends up in the live file: a message handed to a
\* channel is on its way or in a file
LoggingSurvivesRotationFailure ==
    /\ \A s \in Streams : logFile[s].ino # 0 => logFile[s].open
    /\ enq \subseteq (Written \cup InFlight)

\* ------------------------------------------------------ purge (C15, C20)

\* the folder holds live files of one KB last written before the cutoff, at the
\* cutoff or today, and no archive or one archive per stream made before or at the
\* cutoff
InitPurge ==
    InitFolder({INFO}, {LogMaxSize * KB}, {OldDay, OldDay + 1, Day0},
               {NoDay, OldDay, OldDay + 1})

\* the purge loops of both streams while the days pass and a worker writes the
\* application log
NextPurge ==
    \/ Start(TRUE, TRUE)
    \/ SubmitOf("Info", MaxMsgLen, MaxAsyncCalls)
    \/ AppSend
    \/ (WorkerBegin("a") /\ wg = 0)
    \/ AppRecv
    \/ WriteCount("a")
    \/ WriteStore("a")
    \/ WriteTest("a")
    \/ WriteLock("a")
    \/ WriteRotate("a", "ok")
    \/ WriteRLock("a")
    \/ WriteMsg("a")
    \/ PurgeScan("a")
    \/ PurgeRemove("a")
    \/ PurgeScan("p")
    \/ PurgeRemove("p")
    \/ PurgeWake("a")
    \/ PurgeWake("p")
    \/ NextDay

SpecPurge == InitPurge /\ [][NextPurge]_vars

\* the step is the removals of a pass of the purge loop of stream s
Removes(s) ==
    \E t \in BagToSet(threads) :
        /\ t.k = "purge" /\ t.s = s /\ t.pc = "remove"
        /\ threads' = (threads (-) One(t)) (+) One([t EXCEPT !.pc = "sleep", !.files = {}])

\* C15: a pass of the purge loop of stream s removes an entry only if the entry is
\* one of stream s (its name ends with the base name of s) and was last modified
\* strictly before the cutoff, the scan time minus max-age days; so a file at or
\* after the cutoff and a file of the other stream stay
PurgeSafety ==
    [][\A s \in Streams :
          Removes(s) => \A e \in Entries \ Entries' :
                          /\ e[1] = s
                          /\ ModTime(e) < now - LogMaxAge]_vars

\* C20: a purge loop never removes a live file: the file a stream has opened at its
\* live path is still the file at that path, however old its last modification is
PurgeKeepsLiveFile ==
    \A s \in Streams : logFile[s].open => dir[s].live = logFile[s].ino

\* --------------------------------------------- Stop/Start cycles (C16, C19)

\* the engine started and stopped over and over, with the purge loops; no message
NextRestart ==
    \/ StartOf(TRUE, TRUE, MaxRestarts)
    \/ StopBegin
    \/ StopReturn
    \/ PurgeScan("a")
    \/ PurgeRemove("a")
    \/ PurgeScan("p")
    \/ PurgeRemove("p")
    \/ PurgeWake("a")
    \/ PurgeWake("p")

SpecRestart == Init /\ [][NextRestart]_vars

\* the purge loops of stream s that have not terminated, over every Start
RECURSIVE PurgeLoopsFrom(_, _)
PurgeLoopsFrom(s, g) == IF g = 0 THEN 0
                        ELSE AliveOf("purge", s, g) + PurgeLoopsFrom(s, g - 1)
PurgeLoops(s) == PurgeLoopsFrom(s, nchan)

\* C16: a purge loop terminates within one scan cycle of a Stop, whatever follows,
\* so at most one purge loop per stream is alive while the engine is running
OnePurgeLoopPerStream ==
    running => \A s \in Streams : PurgeLoops(s) <= 1

\* the open handles on the files of stream s
RECURSIVE HandlesOf(_)
HandlesOf(I) == IF I = {} THEN 0
                ELSE LET i == CHOOSE j \in I : TRUE
                     IN inodes[i].fds + HandlesOf(I \ {i})
OpenHandles(s) == HandlesOf({i \in 1..Len(inodes) : inodes[i].s = s})

\* C19: while the engine is running and no rotation holds the exclusive lock, each
\* stream has exactly one open handle, the current one, on the file at its live
\* path; replaced and abandoned handles have been closed
SingleLiveHandle ==
    \A s \in Streams :
        (running /\ ~rotateLock[s].w) =>
            /\ OpenHandles(s) = 1
            /\ logFile[s].open
            /\ logFile[s].ino = dir[s].live

\* ------------------------------------------- callers and locks (C17, C18)

\* both streams with every kind of call, the live files being over the maximum when
\* the run begins, so that the first write of a stream rotates
NextAsync ==
    \/ Start(TRUE, TRUE)
    \/ \E op \in SubmitOps : SubmitOf(op, MaxMsgLen, MaxAsyncCalls)
    \/ AppSend
    \/ PublicOf(MaxMsgLen, MaxAsyncCalls)
    \/ FatalOf(MaxMsgLen, MaxAsyncCalls)
    \/ AppRecv
    \/ PublicRecv
    \/ \E s \in Streams :
          \/ WorkerBegin(s)
          \/ WriteCount(s)
          \/ WriteStore(s)
          \/ WriteTest(s)
          \/ WriteLock(s)
          \/ WriteRotate(s, "ok")
          \/ WriteRLock(s)
          \/ WriteMsg(s)

SpecAsync == InitOverMax /\ [][NextAsync]_vars

\* the positions of doAppLogWrite / doPublicAccessLogWrite
WritePath == {"inc", "store", "test", "lock", "rot", "rlock", "write"}

\* the goroutines that are calls of the asynchronous API
Callers == {t \in BagToSet(threads) \cup BagToSet(threads') :
               t.k \in SubmitOps \cup {"Public"}}

\* the step is one of a call of the asynchronous API: the call is made, moves on or
\* returns
CallerStep ==
    \/ ncalls' # ncalls /\ \A t \in BagToSet(threads') : t.k = "Fatal" => t \in BagToSet(threads)
    \/ \E t \in Callers : CopiesIn(t, threads) # CopiesIn(t, threads')

\* C17: Debug, Info, Warn, Error and Public never touch a file on the calling
\* thread: no step of such a call changes a file, the folder or a handle, and the
\* goroutines on the write path are dispatcher workers or Fatal callers
AsyncGuarantee ==
    /\ [][CallerStep => UNCHANGED <<inodes, dir, logFile, rotateLock, rotateCounter,
                                    logSuffix>>]_vars
    /\ [](\A t \in BagToSet(threads) : t.pc \in WritePath => t.k \in {"worker", "Fatal"})

\* an Info call has returned and a worker is about to write its message
AsyncGuaranteeWitness ==
    /\ lastRet.op = "Info" /\ lastRet.res = "sent"
    /\ \E t \in BagToSet(threads) :
          t.k = "worker" /\ t.pc = "write" /\ t.m.id = lastRet.m.id
    /\ lastRet.m.id \notin Written

\* the application stream written by its workers and by Fatal callers, the live
\* file being over the maximum when the run begins
NextLocks ==
    \/ Start(TRUE, TRUE)
    \/ Submit("Info", MaxMsgLen)
    \/ AppSend
    \/ Fatal(MaxMsgLen)
    \/ AppRecv
    \/ WorkerBegin("a")
    \/ WriteCount("a")
    \/ WriteStore("a")
    \/ WriteTest("a")
    \/ WriteLock("a")
    \/ WriteRotate("a", "ok")
    \/ WriteRLock("a")
    \/ WriteMsg("a")

SpecLocks == InitOverMax /\ [][NextLocks]_vars

\* the goroutines of stream s at position pc
AtPc(s, pc) ==
    LET S == {t \in BagToSet(threads) : t.s = s /\ t.pc = pc}
        RECURSIVE Sum(_)
        Sum(T) == IF T = {} THEN 0
                  ELSE LET x == CHOOSE y \in T : TRUE
                       IN CopiesIn(x, threads) + Sum(T \ {x})
    IN Sum(S)

\* the step appends to a file of stream s
Writes(s) ==
    \E i \in 1..Len(inodes) : inodes[i].s = s /\ inodes'[i].msgs # inodes[i].msgs

\* the step closes, renames or reopens the live file of stream s or swaps its handle,
\* outside Start
Rotates(s) ==
    /\ nchan' = nchan
    /\ dir'[s] # dir[s] \/ logFile'[s] # logFile[s]

\* C18: every write of a stream happens under its lock in shared mode and every step
\* of a rotation under the lock held exclusively; a write is never in progress during
\* a rotation and a stream has at most one rotation in progress
LockDiscipline ==
    /\ [](\A s \in Streams :
            /\ AtPc(s, "write") = rotateLock[s].r
            /\ AtPc(s, "rot") = (IF rotateLock[s].w THEN 1 ELSE 0)
            /\ ~(rotateLock[s].w /\ rotateLock[s].r > 0))
    /\ [][\A s \in Streams :
            /\ Writes(s) => rotateLock[s].r > 0 /\ ~rotateLock[s].w
            /\ Rotates(s) => rotateLock[s].w /\ rotateLock[s].r = 0]_vars

\* a rotation of the application log is about to happen under the exclusive lock
\* while another writer waits for the lock
LockDisciplineWitness ==
    /\ rotateLock["a"].w
    /\ needRotation(logFile["a"], LogMaxSize)
    /\ AtPc("a", "lock") >= 1


\* ------------------------------------------------- rotation counter (C21)

\* two of the five workers of the application stream draining the messages of one
\* producer, which logs once the engine runs and makes its next call when the last
\* one has returned; the other goroutines are launched and never scheduled
NextCounter ==
    \/ Start(TRUE, TRUE)
    \/ /\ running
       /\ AtPc("a", "send") = 0
       /\ SubmitOf("Info", MaxMsgLen, MaxWrites)
    \/ AppSend
    \/ WorkerBegin("a") /\ wg < MaxWriters
    \/ AppRecv
    \/ WriteCount("a")
    \/ WriteStore("a")
    \/ WriteTest("a")
    \/ WriteLock("a")
    \/ WriteRotate("a", "ok")
    \/ WriteRLock("a")
    \/ WriteMsg("a")

SpecCounter == Init /\ [][NextCounter]_vars

\* C21: a writer that reaches the test of the rotation counter finds it at most 10,
\* so every call of the write path performs the size check and no write goes to a
\* file that was over the threshold when its call began.
RotationCheckedBeforeEveryWrite ==
    \A s \in Streams : AtPc(s, "test") >= 1 => ChecksSize(s)


\* ------------------------------------------------------- shutdown (C22)

\* the Go scheduler runs every runnable goroutine: besides the senders and the
\* workers, a worker that can leave its loop leaves it, and a Stop whose wg.Wait()
\* can return returns
FairStop ==
    /\ FairWorkers
    /\ WF_vars(WorkerExit("a"))
    /\ WF_vars(StopReturn)

\* the application stream with Start and Stop, under fair scheduling
SpecStop == Init /\ [][NextApp]_vars /\ FairStop

\* a Stop called on a Running engine has closed the channels and is in wg.Wait()
StopWaiting ==
    \E t \in BagToSet(threads) : t.k = "Stop" /\ t.pc = "wait" /\ ~t.st0

\* C22: a Stop called on a Running engine eventually returns.
StopTerminates == StopWaiting ~> ~StopWaiting

\* the shutdown cannot hang: a Stop that does not return was cut short by the end
\* of the process
StopReturnsOrProcessEnds == StopWaiting ~> (~StopWaiting \/ proc # "up")

====
